---- MODULE Spec2Model ----
(***************************************************************************)
(* Model of demo/Diffusion/ort_trt.py: the benchmark driver main() and the *)
(* pipeline run_pipeline(args).  The three ONNX sessions, the tokenizer,   *)
(* the scheduler and measure_memory are external; they are modelled by the *)
(* shape / dtype / provenance of what they are given and what they return. *)
(***************************************************************************)
EXTENDS Integers, Sequences, FiniteSets, TLC

\* ---- bounds of the explored command lines and of the environment --------
MaxBatch == 5
MaxImages == 2
MaxWarmup == 2
MaxSteps == 2
MaxScale == 2
MaxPred == 1
MaxClock == 1

\* ---- program constants ---------------------------------------------------
ModelMaxLength == 77
HiddenDim == 768
FirstPassBatch == 1

BatchSizes == <<1, 2, 4, 8, 16>>

\* ---- python sequence values (str and list) -------------------------------
RECURSIVE Repeat(_, _)
Repeat(s, n) == IF n <= 0 THEN <<>> ELSE s \o Repeat(s, n - 1)

PyStr(chars) == [kind |-> "str", items |-> chars]
PyList(xs) == [kind |-> "list", items |-> xs]

\* seq * n, for a str as for a list
PyMul(v, n) == [kind |-> v.kind, items |-> Repeat(v.items, n)]

\* [x for _ in range(n)]
PyListOfCopies(x, n) == PyList([i \in 1..n |-> x.items])

DefaultPrompt == PyStr(<<"f", "u", "j", "i">>)
DefaultNegativePrompt == PyList(<< <<>> >>)
CliNegativePrompt == PyStr(<<"u", "g">>)

\* ---- tensors --------------------------------------------------------------
\* token ids: rows x seq, tagged with the args attribute they were built from
Tokenize(v, what) ==
  [rows |-> IF v.kind = "str" THEN 1 ELSE Len(v.items),
   seq |-> ModelMaxLength, dtype |-> "int64", what |-> what]

AsType(t, dt) == [t EXCEPT !.dtype = dt]

to_np(t, new_dtype) == IF t.dtype # new_dtype THEN [t EXCEPT !.dtype = new_dtype] ELSE t

to_pt(t, new_dtype) == IF t.dtype # new_dtype THEN [t EXCEPT !.dtype = new_dtype] ELSE t

\* output of the CLIP session: one embedding row per id row
ClipOutput(ids) ==
  [rows |-> [i \in 1..ids.rows |-> ids.what], seq |-> ids.seq,
   hid |-> HiddenDim, dtype |-> "float32"]

Numel(t) == Len(t.rows) * t.seq * t.hid

\* tensor.repeat(1, n, 1)
TorchRepeat(t, n) == [t EXCEPT !.seq = t.seq * n]

\* tensor.view(r, s, -1): possible iff the element count divides
ViewOk(t, r, s) == r * s > 0 /\ Numel(t) % (r * s) = 0

View(t, r, s) ==
  [rows |-> [i \in 1..r |-> t.rows[1]], seq |-> s,
   hid |-> Numel(t) \div (r * s), dtype |-> t.dtype]

\* torch.cat([a, b]) along dim 0: the other dims must agree
CatOk(a, b) == a.seq = b.seq /\ a.hid = b.hid

Cat(a, b) == [rows |-> a.rows \o b.rows, seq |-> a.seq, hid |-> a.hid, dtype |-> a.dtype]

\* tensor.chunk(2) along dim 0
Chunk2(s) ==
  LET h == (Len(s) + 1) \div 2 IN <<SubSeq(s, 1, h), SubSeq(s, h + 1, Len(s))>>

\* variant of Guidance with the two halves exchanged
Guidance_Swapped(u, t, g) == [i \in 1..Len(u) |-> t[i].val + g * (u[i].val - t[i].val)]

\* noise_pred_uncond + guidance_scale * (noise_pred_text - noise_pred_uncond)
Guidance(u, t, g) == [i \in 1..Len(u) |-> u[i].val + g * (t[i].val - u[i].val)]

\* scheduler.set_timesteps(n): n timesteps, in decreasing order
Timesteps(n) == [k \in 1..n |-> n - k]

NoLatents == [rows |-> 0, op |-> "none", idx |-> 0, seed |-> 0, vae_scaled |-> FALSE, dtype |-> "none"]
NoEmbeds == [rows |-> <<>>, seq |-> 0, hid |-> 0, dtype |-> "none"]
NoFeed == [kind |-> "none"]

VARIABLES
  pc,            \* position of main
  args,          \* the argparse namespace
  nsess,         \* number of InferenceSession objects created so far
  first_pass,    \* feeds of the first inference passes made by main
  warm_i,        \* warm-up loop counter
  bs_i,          \* index into BatchSizes of the measurement loop
  init_prompt, init_negative_prompt,
  main_log,      \* run_pipeline calls made by main, in order
  rpc,           \* position inside run_pipeline ("idle" when not running)
  latents, text_embeddings, step_index, timers,
  clip_feed, unet_feed, unet_out, scale_call, step_call, vae_feed,
  report,        \* the latency table printed by the current run
  events,        \* external calls and clock reads of the current run, in order
  now            \* the clock read by time.time()

mainvars == <<pc, args, nsess, first_pass, warm_i, bs_i, init_prompt, init_negative_prompt, main_log>>
runvars == <<rpc, latents, text_embeddings, step_index, timers,
             clip_feed, unet_feed, unet_out, scale_call, step_call, vae_feed, report, events>>
vars == <<mainvars, runvars, now>>

\* argparse defaults (the default guidance scale 7.5 is kept as the integer 7:
\* guidance scales are integers here, and get_args always overwrites it)
DefaultArgs ==
  [prompt |-> DefaultPrompt, batch_size |-> 1, num_warmup_runs |-> 5,
   denoising_steps |-> 50, seed |-> 0, denoising_prec |-> "fp16",
   num_images |-> 1, negative_prompt |-> DefaultNegativePrompt,
   guidance_scale |-> 7, timesteps |-> <<>>,
   clip_sess |-> 0, unet_sess |-> 0, vae_sess |-> 0, warmup |-> "unset"]

Init ==
  /\ pc = "get_args"
  /\ args = DefaultArgs
  /\ nsess = 0
  /\ first_pass = [clip |-> NoFeed, unet |-> NoFeed, vae |-> NoFeed]
  /\ warm_i = 0
  /\ bs_i = 1
  /\ init_prompt = DefaultPrompt
  /\ init_negative_prompt = DefaultNegativePrompt
  /\ main_log = <<>>
  /\ rpc = "idle"
  /\ latents = NoLatents
  /\ text_embeddings = NoEmbeds
  /\ step_index = 0
  /\ timers = [x \in {} |-> 0]
  /\ clip_feed = <<>>
  /\ unet_feed = NoFeed
  /\ unet_out = <<>>
  /\ scale_call = NoFeed
  /\ step_call = NoFeed
  /\ vae_feed = NoFeed
  /\ events = <<>>
  /\ report = NoFeed
  /\ now = 0

\* ---- inputs of one command line -----------------------------------------
BatchChoices == {1, 2, MaxBatch}
ImageChoices == {1, MaxImages}
WarmupChoices == {0, MaxWarmup}
StepChoices == {1, MaxSteps}
ScaleChoices == {0, 1, MaxScale}
PredVals == {0, MaxPred}
\* --seed: a seed other than the default 0
Seeds == {1}

\* get_args(): parse the command line, build the scheduler, set its timesteps
get_args ==
  /\ pc = "get_args"
  /\ \E b \in BatchChoices, n \in ImageChoices, w \in WarmupChoices, d \in StepChoices,
        g \in ScaleChoices, sd \in Seeds, prec \in {"fp16", "fp32"}, negcli \in BOOLEAN :
       args' = [args EXCEPT !.batch_size = b, !.num_images = n, !.num_warmup_runs = w,
                            !.denoising_steps = d, !.guidance_scale = g, !.seed = sd,
                            !.denoising_prec = prec,
                            !.negative_prompt =
                               IF negcli THEN CliNegativePrompt ELSE DefaultNegativePrompt,
                            !.timesteps = Timesteps(d)]
  /\ pc' = "load_clip"
  /\ UNCHANGED <<nsess, first_pass, warm_i, bs_i, init_prompt, init_negative_prompt, main_log>>
  /\ UNCHANGED <<runvars, now>>

\* feeds of the first inference passes (batch_size = 1 in main)
FirstClipFeed == [input_ids |-> [rows |-> FirstPassBatch, seq |-> ModelMaxLength, dtype |-> "int32"]]

FirstUnetFeed ==
  [sample |-> [rows |-> 2 * FirstPassBatch, dtype |-> "float32"],
   timestep |-> [dtype |-> "float32"],
   encoder_hidden_states |->
     [rows |-> 2 * FirstPassBatch, seq |-> ModelMaxLength, hid |-> HiddenDim,
      dtype |-> IF args.denoising_prec = "fp16" THEN "float16" ELSE "float32"]]

FirstVaeFeed == [latent |-> [rows |-> FirstPassBatch, dtype |-> "float32"]]

\* create the CLIP session, run it once, store it in args
LoadClip ==
  /\ pc = "load_clip"
  /\ nsess' = nsess + 1
  /\ first_pass' = [first_pass EXCEPT !.clip = FirstClipFeed]
  /\ args' = [args EXCEPT !.clip_sess = nsess + 1]
  /\ pc' = "load_unet"
  /\ UNCHANGED <<warm_i, bs_i, init_prompt, init_negative_prompt, main_log, runvars, now>>

LoadUnet ==
  /\ pc = "load_unet"
  /\ nsess' = nsess + 1
  /\ first_pass' = [first_pass EXCEPT !.unet = FirstUnetFeed]
  /\ args' = [args EXCEPT !.unet_sess = nsess + 1]
  /\ pc' = "load_vae"
  /\ UNCHANGED <<warm_i, bs_i, init_prompt, init_negative_prompt, main_log, runvars, now>>

\* variant of LoadVae that does not store the session in args
LoadVae_NoSetattr ==
  /\ pc = "load_vae"
  /\ nsess' = nsess + 1
  /\ first_pass' = [first_pass EXCEPT !.vae = FirstVaeFeed]
  /\ pc' = "begin_warmup"
  /\ UNCHANGED <<args, warm_i, bs_i, init_prompt, init_negative_prompt, main_log, runvars, now>>

LoadVae ==
  /\ pc = "load_vae"
  /\ nsess' = nsess + 1
  /\ first_pass' = [first_pass EXCEPT !.vae = FirstVaeFeed]
  /\ args' = [args EXCEPT !.vae_sess = nsess + 1]
  /\ pc' = "begin_warmup"
  /\ UNCHANGED <<warm_i, bs_i, init_prompt, init_negative_prompt, main_log, runvars, now>>

\* setattr(args, 'warmup', True)
BeginWarmup ==
  /\ pc = "begin_warmup"
  /\ args' = [args EXCEPT !.warmup = "True"]
  /\ pc' = "warmup"
  /\ UNCHANGED <<nsess, first_pass, warm_i, bs_i, init_prompt, init_negative_prompt, main_log>>
  /\ UNCHANGED <<runvars, now>>

\* the locals of run_pipeline before the call and after the return
NoFrame ==
  /\ latents' = NoLatents
  /\ text_embeddings' = NoEmbeds
  /\ step_index' = 0
  /\ timers' = [x \in {} |-> 0]
  /\ clip_feed' = <<>>
  /\ unet_feed' = NoFeed
  /\ unet_out' = <<>>
  /\ scale_call' = NoFeed
  /\ step_call' = NoFeed
  /\ vae_feed' = NoFeed
  /\ events' = <<>>
  /\ report' = NoFeed

\* entry of run_pipeline
CallRun(kind) ==
  /\ rpc' = "start"
  /\ main_log' = Append(main_log, [kind |-> kind, batch_size |-> args'.batch_size, warmup |-> args'.warmup])
  /\ UNCHANGED <<latents, text_embeddings, step_index, timers,
                 clip_feed, unet_feed, unet_out, scale_call, step_call, vae_feed, report, events>>

\* for _ in range(args.num_warmup_runs): run_pipeline(args)
WarmupCall ==
  /\ pc = "warmup" /\ rpc = "idle"
  /\ warm_i < args.num_warmup_runs
  /\ pc' = "in_warmup_run"
  /\ UNCHANGED <<args, nsess, first_pass, warm_i, bs_i, init_prompt, init_negative_prompt, now>>
  /\ CallRun("warmup")

\* end of the warm-up loop: warmup = False, remember the parsed prompts
WarmupExit ==
  /\ pc = "warmup" /\ rpc = "idle"
  /\ warm_i >= args.num_warmup_runs
  /\ args' = [args EXCEPT !.warmup = "False"]
  /\ init_prompt' = args.prompt
  /\ init_negative_prompt' = args.negative_prompt
  /\ pc' = "measure"
  /\ UNCHANGED <<nsess, first_pass, warm_i, bs_i, main_log, runvars, now>>

\* one iteration of `for bs in [1, 2, 4, 8, 16]` up to the latency run
MeasureLatency ==
  /\ pc = "measure" /\ rpc = "idle"
  /\ bs_i <= Len(BatchSizes)
  /\ args' = [args EXCEPT !.batch_size = BatchSizes[bs_i],
                          !.prompt = PyListOfCopies(init_prompt, BatchSizes[bs_i]),
                          !.negative_prompt = PyMul(init_negative_prompt, BatchSizes[bs_i])]
  /\ pc' = "in_latency_run"
  /\ CallRun("latency")
  /\ UNCHANGED <<nsess, first_pass, warm_i, bs_i, init_prompt, init_negative_prompt, now>>

\* measure_memory(func=lambda: run_pipeline(args))
MeasureMemory ==
  /\ pc = "memory" /\ rpc = "idle"
  /\ pc' = "in_memory_run"
  /\ UNCHANGED <<args, nsess, first_pass, warm_i, bs_i, init_prompt, init_negative_prompt, now>>
  /\ CallRun("memory")

MeasureExit ==
  /\ pc = "measure" /\ rpc = "idle"
  /\ bs_i > Len(BatchSizes)
  /\ pc' = "done"
  /\ UNCHANGED <<args, nsess, first_pass, warm_i, bs_i, init_prompt, init_negative_prompt, main_log>>
  /\ UNCHANGED <<runvars, now>>

\* variant of RunReturn that moves to the next batch size after the latency run
RunReturn_SkipMemory ==
  /\ rpc = "return"
  /\ rpc' = "idle"
  /\ \/ pc = "in_warmup_run" /\ pc' = "warmup" /\ warm_i' = warm_i + 1 /\ bs_i' = bs_i
     \/ pc = "in_latency_run" /\ pc' = "measure" /\ bs_i' = bs_i + 1 /\ warm_i' = warm_i
     \/ pc = "in_memory_run" /\ pc' = "measure" /\ bs_i' = bs_i + 1 /\ warm_i' = warm_i
  /\ UNCHANGED <<args, nsess, first_pass, init_prompt, init_negative_prompt, main_log, now>>
  /\ NoFrame

\* run_pipeline returns to its caller
RunReturn ==
  /\ rpc = "return"
  /\ rpc' = "idle"
  /\ \/ pc = "in_warmup_run" /\ pc' = "warmup" /\ warm_i' = warm_i + 1 /\ bs_i' = bs_i
     \/ pc = "in_latency_run" /\ pc' = "memory" /\ UNCHANGED <<warm_i, bs_i>>
     \/ pc = "in_memory_run" /\ pc' = "measure" /\ bs_i' = bs_i + 1 /\ warm_i' = warm_i
  /\ UNCHANGED <<args, nsess, first_pass, init_prompt, init_negative_prompt, main_log, now>>
  /\ NoFrame
\* ---- run_pipeline ---------------------------------------------------------
Rows == args.batch_size * args.num_images

SchedTimestepDtype == "float64"

\* name = time.time(), after torch.cuda.synchronize()
Sample(name) == timers @@ (name :> now)

\* an exception leaves run_pipeline and main
Raise ==
  /\ rpc' = "raised"
  /\ pc' = "raised"

\* torch.randn(latents_shape, generator=manual_seed(args.seed)) * init_noise_sigma
InitialLatents ==
  [rows |-> Rows, op |-> "randn_sigma", idx |-> 0, seed |-> args.seed,
   vae_scaled |-> FALSE, dtype |-> "float32"]

\* lines 128-142
RunStart ==
  /\ rpc = "start"
  /\ latents' = InitialLatents
  /\ timers' = Sample("start_time")
  /\ events' = Append(events, "start_time")
  /\ rpc' = "encode_text"
  /\ UNCHANGED <<mainvars, now, text_embeddings, step_index,
                 clip_feed, unet_feed, unet_out, scale_call, step_call, vae_feed, report>>

\* text_embeddings.repeat(1, num_images, 1).view(bs_embed * num_images, seq_len, -1)
TextEmbeddings(ids) ==
  LET e == to_pt(ClipOutput(ids), "float32")
  IN View(TorchRepeat(e, args.num_images), Len(e.rows) * args.num_images, e.seq)

\* lines 145-163: tokenise the prompt, first CLIP run
EncodeText ==
  /\ rpc = "encode_text"
  /\ LET ids == AsType(Tokenize(args.prompt, "prompt"), "int32")
     IN /\ clip_feed' = Append(clip_feed, [input_ids |-> ids])
        /\ text_embeddings' = TextEmbeddings(ids)
  /\ timers' = Sample("clip_start_time")
  /\ events' = events \o <<"clip_start_time", "clip_run">>
  /\ rpc' = "encode_uncond"
  /\ UNCHANGED <<mainvars, now, latents, step_index,
                 unet_feed, unet_out, scale_call, step_call, vae_feed, report>>

UncondRepeated(ids) == TorchRepeat(to_pt(ClipOutput(ids), "float32"), args.num_images)

\* text_embeddings.to(dtype=torch.float16) when the denoiser runs in fp16
CastForDenoiser(e) ==
  IF args.denoising_prec = "fp16" THEN [e EXCEPT !.dtype = "float16"] ELSE e

\* lines 165-191: tokenise the negative prompt, second CLIP run, view, cat, cast
EncodeUncond ==
  /\ rpc = "encode_uncond"
  /\ LET ids == AsType(Tokenize(args.negative_prompt, "negative_prompt"), "int32")
         rep == UncondRepeated(ids)
         seq_len == ids.seq
     IN /\ clip_feed' = Append(clip_feed, [input_ids |-> ids])
        /\ IF ~ViewOk(rep, Rows, seq_len)
           THEN /\ Raise
                /\ events' = Append(events, "clip_run")
                /\ UNCHANGED <<text_embeddings, timers>>
           ELSE LET uncond == View(rep, Rows, seq_len)
                IN IF ~CatOk(uncond, text_embeddings)
                   THEN /\ Raise
                        /\ events' = Append(events, "clip_run")
                        /\ UNCHANGED <<text_embeddings, timers>>
                   ELSE /\ text_embeddings' = CastForDenoiser(Cat(uncond, text_embeddings))
                        /\ timers' = Sample("clip_end_time")
                        /\ events' = events \o <<"clip_run", "clip_end_time">>
                        /\ rpc' = "denoise_begin"
                        /\ pc' = pc
  /\ UNCHANGED <<args, nsess, first_pass, warm_i, bs_i, init_prompt, init_negative_prompt, main_log>>
  /\ UNCHANGED <<now, latents, step_index, unet_feed, unet_out, scale_call, step_call, vae_feed, report>>

\* lines 193-194
DenoiseBegin ==
  /\ rpc = "denoise_begin"
  /\ timers' = Sample("unet_start_time")
  /\ events' = Append(events, "unet_start_time")
  /\ step_index' = 0
  /\ rpc' = "denoise"
  /\ UNCHANGED <<mainvars, now, latents, text_embeddings,
                 clip_feed, unet_feed, unet_out, scale_call, step_call, vae_feed, report>>

\* torch.cat([latents] * 2), then scheduler.scale_model_input(., step_index)
LatentModelInput(l, k) == [rows |-> 2 * l.rows, dtype |-> l.dtype, of |-> l, scaled_at |-> k]

TimestepFloat(t) == IF t.dtype # "float32" THEN [t EXCEPT !.dtype = "float32"] ELSE t

\* variant of UnetDtype that ignores --denoising-prec
UnetDtype_AlwaysHalf == "float16"

UnetDtype == IF args.denoising_prec = "fp16" THEN "float16" ELSE "float32"

\* unet_args of line 209
UnetArgs(l, k) ==
  [sample |-> to_np(LatentModelInput(l, k), "float32"),
   timestep |-> AsType(to_np(TimestepFloat([val |-> args.timesteps[k + 1], dtype |-> SchedTimestepDtype]),
                             "float32"), "float32"),
   encoder_hidden_states |-> to_np(text_embeddings, UnetDtype)]

\* the UNet graph takes one embedding row per sample row
UnetAccepts(feed) ==
  /\ feed.sample.rows = Len(feed.encoder_hidden_states.rows)
  /\ feed.encoder_hidden_states.seq = ModelMaxLength
  /\ feed.encoder_hidden_states.hid = HiddenDim

\* output of the UNet session: row i is the prediction for embedding row i
UnetOutput(feed, pu, pt) ==
  [i \in 1..feed.sample.rows |->
     [tag |-> feed.encoder_hidden_states.rows[i],
      val |-> IF feed.encoder_hidden_states.rows[i] = "negative_prompt" THEN pu ELSE pt]]

\* lines 218-219
GuidedNoise(out) == Guidance(Chunk2(out)[1], Chunk2(out)[2], args.guidance_scale)

\* scheduler.step(noise_pred, latents, step_index, timestep)
StepCall(noise, l, k) ==
  [noise_pred |-> noise, latents |-> l, step_index |-> k, timestep |-> args.timesteps[k + 1]]

\* variant of StepResult that keeps the old latents
StepResult_Dropped(l, k) == l

StepResult(l, k) == [l EXCEPT !.op = "step", !.idx = k]

\* one iteration of the loop of line 195
DenoiseStep ==
  /\ rpc = "denoise"
  /\ step_index < Len(args.timesteps)
  /\ LET feed == UnetArgs(latents, step_index)
     IN /\ scale_call' = [latents |-> latents, step_index |-> step_index]
        /\ unet_feed' = feed
        /\ events' = Append(events, "unet_run")
        /\ IF ~UnetAccepts(feed)
           THEN /\ Raise
                /\ UNCHANGED <<unet_out, step_call, latents, step_index>>
           ELSE /\ \E pu \in PredVals, pt \in PredVals : unet_out' = UnetOutput(feed, pu, pt)
                /\ step_call' = StepCall(GuidedNoise(unet_out'), latents, step_index)
                /\ latents' = StepResult(latents, step_index)
                /\ step_index' = step_index + 1
                /\ UNCHANGED <<rpc, pc>>
  /\ UNCHANGED <<args, nsess, first_pass, warm_i, bs_i, init_prompt, init_negative_prompt, main_log>>
  /\ UNCHANGED <<now, text_embeddings, timers, clip_feed, vae_feed, report>>

\* latents = 1. / 0.18215 * latents
VaeScaled(l) == [l EXCEPT !.vae_scaled = TRUE]

\* variant of DenoiseEnd that leaves the loop one timestep early
DenoiseEnd_EarlyExit ==
  /\ rpc = "denoise"
  /\ step_index + 1 >= Len(args.timesteps)
  /\ latents' = VaeScaled(latents)
  /\ timers' = Sample("unet_end_time")
  /\ events' = Append(events, "unet_end_time")
  /\ rpc' = "decode_begin"
  /\ UNCHANGED <<mainvars, now, text_embeddings, step_index,
                 clip_feed, unet_feed, unet_out, scale_call, step_call, vae_feed, report>>

\* loop exit, lines 223-225
DenoiseEnd ==
  /\ rpc = "denoise"
  /\ step_index >= Len(args.timesteps)
  /\ latents' = VaeScaled(latents)
  /\ timers' = Sample("unet_end_time")
  /\ events' = Append(events, "unet_end_time")
  /\ rpc' = "decode_begin"
  /\ UNCHANGED <<mainvars, now, text_embeddings, step_index,
                 clip_feed, unet_feed, unet_out, scale_call, step_call, vae_feed, report>>

\* variant of DecodeBegin that reuses the UNet start time
DecodeBegin_Stale ==
  /\ rpc = "decode_begin"
  /\ timers' = timers @@ ("vae_start_time" :> timers["unet_start_time"])
  /\ events' = Append(events, "vae_start_time")
  /\ rpc' = "decode"
  /\ UNCHANGED <<mainvars, now, latents, text_embeddings, step_index,
                 clip_feed, unet_feed, unet_out, scale_call, step_call, vae_feed, report>>

\* lines 228-229
DecodeBegin ==
  /\ rpc = "decode_begin"
  /\ timers' = Sample("vae_start_time")
  /\ events' = Append(events, "vae_start_time")
  /\ rpc' = "decode"
  /\ UNCHANGED <<mainvars, now, latents, text_embeddings, step_index,
                 clip_feed, unet_feed, unet_out, scale_call, step_call, vae_feed, report>>

\* lines 231-236
Decode ==
  /\ rpc = "decode"
  /\ vae_feed' = [latent |-> to_np(latents, "float32")]
  /\ timers' = Sample("vae_end_time")
  /\ events' = events \o <<"vae_run", "vae_end_time">>
  /\ rpc' = "report"
  /\ UNCHANGED <<mainvars, now, latents, text_embeddings, step_index,
                 clip_feed, unet_feed, unet_out, scale_call, step_call, report>>

\* the latency table of lines 241-249 (in clock units)
LatencyTable(t) ==
  [clip |-> t["clip_end_time"] - t["clip_start_time"],
   unet |-> t["unet_end_time"] - t["unet_start_time"],
   vae |-> t["vae_end_time"] - t["vae_start_time"],
   pipeline |-> t["end_time"] - t["start_time"]]

\* args.prompt[i] for i in range(args.batch_size) is defined
PrefixIndexOk == args.batch_size <= Len(args.prompt.items)

\* variant of NotWarmup that reports in every run
NotWarmup_Always == TRUE

\* `if not args.warmup`
NotWarmup == args.warmup # "True"

\* lines 238-253
Report ==
  /\ rpc = "report"
  /\ timers' = Sample("end_time")
  /\ IF ~NotWarmup
     THEN /\ events' = Append(events, "end_time")
          /\ rpc' = "return"
          /\ UNCHANGED <<report, pc>>
     ELSE /\ report' = LatencyTable(timers')
          /\ IF PrefixIndexOk
             THEN /\ events' = events \o <<"end_time", "print_table", "save_image">>
                  /\ rpc' = "return"
                  /\ pc' = pc
             ELSE /\ events' = events \o <<"end_time", "print_table">>
                  /\ Raise
  /\ UNCHANGED <<args, nsess, first_pass, warm_i, bs_i, init_prompt, init_negative_prompt, main_log>>
  /\ UNCHANGED <<now, latents, text_embeddings, step_index,
                 clip_feed, unet_feed, unet_out, scale_call, step_call, vae_feed>>

\* time passes
Tick ==
  /\ now < MaxClock
  /\ now' = now + 1
  /\ UNCHANGED <<mainvars, runvars>>

Next ==
  \/ get_args \/ LoadClip \/ LoadUnet \/ LoadVae \/ BeginWarmup
  \/ WarmupCall \/ WarmupExit \/ MeasureLatency \/ MeasureMemory \/ MeasureExit
  \/ RunReturn
  \/ RunStart \/ EncodeText \/ EncodeUncond \/ DenoiseBegin \/ DenoiseStep \/ DenoiseEnd
  \/ DecodeBegin \/ Decode \/ Report
  \/ Tick

Spec == Init /\ [][Next]_vars

\* ---- properties ------------------------------------------------------------
IsRun(e) == e \in {"clip_run", "unet_run", "vae_run"}
IsClock(e) == e \in {"start_time", "clip_start_time", "clip_end_time", "unet_start_time",
                     "unet_end_time", "vae_start_time", "vae_end_time", "end_time"}
IsOutput(e) == e \in {"print_table", "save_image"}

Count(s, x) == Cardinality({i \in 1..Len(s) : s[i] = x})
IsPrefix(s, t) == Len(s) <= Len(t) /\ SubSeq(t, 1, Len(s)) = s
Copies(x, n) == [i \in 1..n |-> x]

Parsed == pc # "get_args"
InRun == rpc \notin {"idle", "start"}
Measured == SelectSeq(main_log, LAMBDA r : r.kind # "warmup")
WarmupsLogged == SelectSeq(main_log, LAMBDA r : r.kind = "warmup")
UnetCalled == Count(events, "unet_run") > 0
StepDone == rpc # "raised" /\ UnetCalled
VaeCalled == Count(events, "vae_run") > 0

\* C1: main goes through argument parsing, then creation and first inference
\* of the CLIP, UNet and VAE sessions in that order, then the warm-up runs,
\* then the measured runs; no run_pipeline call is made before the three
\* sessions are stored in args, and from the first call on the sessions are
\* the three created at start-up (none is created or replaced later).
C1_PhaseOrder ==
  /\ (nsess > 0 => Parsed)
  /\ (args.clip_sess # 0 <=> nsess >= 1) /\ (args.clip_sess # 0 => args.clip_sess = 1)
  /\ (args.unet_sess # 0 <=> nsess >= 2) /\ (args.unet_sess # 0 => args.unet_sess = 2)
  /\ (args.vae_sess # 0 <=> nsess >= 3) /\ (args.vae_sess # 0 => args.vae_sess = 3)
  /\ (nsess >= 1 <=> first_pass.clip = FirstClipFeed)
  /\ (nsess >= 2 <=> first_pass.unet = FirstUnetFeed)
  /\ (nsess >= 3 <=> first_pass.vae = FirstVaeFeed)
  /\ (main_log # <<>> \/ rpc # "idle" =>
        /\ nsess = 3
        /\ args.clip_sess = 1 /\ args.unet_sess = 2 /\ args.vae_sess = 3)
  /\ \A i \in 1..Len(main_log) : \A j \in 1..Len(main_log) :
        i < j /\ main_log[j].kind = "warmup" => main_log[i].kind = "warmup"

C1_Witness == pc = "done" /\ Len(WarmupsLogged) > 0 /\ Len(Measured) > 0

\* C2: in every run_pipeline call the session runs are, in order, two CLIP
\* runs (prompt ids, then negative-prompt ids), one UNet run per scheduler
\* timestep (as many as --denoising-steps, in every run), one VAE run.
ExpectedRuns ==
  <<"clip_run", "clip_run">> \o Copies("unet_run", args.denoising_steps) \o <<"vae_run">>

C2_StageOrder ==
  /\ (Parsed => Len(args.timesteps) = args.denoising_steps)
  /\ IsPrefix(SelectSeq(events, IsRun), ExpectedRuns)
  /\ Len(clip_feed) = Count(events, "clip_run")
  /\ (Len(clip_feed) >= 1 => clip_feed[1].input_ids.what = "prompt")
  /\ (Len(clip_feed) >= 2 => clip_feed[2].input_ids.what = "negative_prompt")
  /\ (rpc = "return" => SelectSeq(events, IsRun) = ExpectedRuns)

C2_Witness == rpc = "return" /\ args.denoising_steps > 1 /\ args.warmup = "False"
\* C3: in every pipeline run, warm-up runs included and whatever --batch-size
\* and --num_images are, the view of the unconditional embeddings and the
\* cat succeed because CLIP returns batch_size negative-prompt rows, and at
\* each UNet call 'sample' and 'encoder_hidden_states' both have
\* 2 * batch_size * num_images rows, unconditional rows first.
C3_ShapesAlwaysCorrect ==
  /\ rpc # "raised"
  /\ (Len(clip_feed) >= 2 => clip_feed[2].input_ids.rows = args.batch_size)
  /\ (UnetCalled =>
        /\ unet_feed.sample.rows = 2 * Rows
        /\ unet_feed.encoder_hidden_states.rows =
             Copies("negative_prompt", Rows) \o Copies("prompt", Rows))

\* C4: CLIP 'input_ids' is int32, UNet 'sample' and 'timestep' are float32,
\* VAE 'latent' is float32, UNet 'encoder_hidden_states' is float16 exactly
\* when --denoising-prec is fp16 and float32 otherwise; each dtype equals the
\* dtype of the same input in the first inference pass made by main.
C4_Dtypes ==
  /\ \A i \in 1..Len(clip_feed) :
        /\ clip_feed[i].input_ids.dtype = "int32"
        /\ clip_feed[i].input_ids.dtype = first_pass.clip.input_ids.dtype
  /\ (UnetCalled =>
        /\ unet_feed.sample.dtype = "float32"
        /\ unet_feed.timestep.dtype = "float32"
        /\ (unet_feed.encoder_hidden_states.dtype = "float16" <=> args.denoising_prec = "fp16")
        /\ (unet_feed.encoder_hidden_states.dtype = "float32" <=> args.denoising_prec # "fp16")
        /\ unet_feed.sample.dtype = first_pass.unet.sample.dtype
        /\ unet_feed.timestep.dtype = first_pass.unet.timestep.dtype
        /\ unet_feed.encoder_hidden_states.dtype = first_pass.unet.encoder_hidden_states.dtype)
  /\ (VaeCalled =>
        /\ vae_feed.latent.dtype = "float32"
        /\ vae_feed.latent.dtype = first_pass.vae.latent.dtype)

C4_Witness == VaeCalled /\ UnetCalled /\ args.denoising_prec = "fp32" /\ args.warmup = "False"

\* C5: the measured runs are, in order, a latency run and then a memory run
\* for each of the batch sizes 1, 2, 4, 8, 16, each once, with
\* args.batch_size set to that batch size; a run is started only when the
\* previous one has returned, and main ends after the ten runs.
ExpectedMeasured ==
  [j \in 1..10 |->
     [kind |-> IF j % 2 = 1 THEN "latency" ELSE "memory",
      batch_size |-> <<1, 1, 2, 2, 4, 4, 8, 8, 16, 16>>[j],
      warmup |-> "False"]]

C5_MeasureOrder ==
  /\ IsPrefix(Measured, ExpectedMeasured)
  /\ (pc = "done" => Measured = ExpectedMeasured)
  /\ (pc \in {"in_latency_run", "in_memory_run"} =>
        /\ rpc # "idle"
        /\ Len(Measured) > 0
        /\ Measured[Len(Measured)].kind = (IF pc = "in_latency_run" THEN "latency" ELSE "memory")
        /\ args.batch_size = Measured[Len(Measured)].batch_size)
  /\ (pc = "memory" => rpc = "idle" /\ Len(Measured) % 2 = 1)
  /\ (pc = "measure" => rpc = "idle" /\ Len(Measured) % 2 = 0)

C5_Witness == pc = "done" /\ Len(Measured) = 10

\* C6: the noise passed to scheduler.step is U + guidance_scale * (T - U),
\* where U is the first half of the UNet output, the rows predicted for the
\* unconditional (negative-prompt) embeddings, and T the second half, the
\* rows predicted for the text embeddings; scale 0 gives U, scale 1 gives T.
C6_Guidance ==
  StepDone =>
    LET h == Len(unet_out) \div 2 IN
      /\ Len(unet_out) = 2 * step_call.latents.rows
      /\ Len(step_call.noise_pred) = h
      /\ unet_feed.sample.of = step_call.latents
      /\ \A i \in 1..h :
           /\ unet_feed.encoder_hidden_states.rows[i] = "negative_prompt"
           /\ unet_feed.encoder_hidden_states.rows[h + i] = "prompt"
           /\ unet_out[i].tag = "negative_prompt"
           /\ unet_out[h + i].tag = "prompt"
           /\ step_call.noise_pred[i] =
                unet_out[i].val + args.guidance_scale * (unet_out[h + i].val - unet_out[i].val)
           /\ (args.guidance_scale = 0 => step_call.noise_pred[i] = unet_out[i].val)
           /\ (args.guidance_scale = 1 => step_call.noise_pred[i] = unet_out[h + i].val)

C6_Witness ==
  /\ StepDone /\ args.guidance_scale = 1 /\ Len(unet_out) >= 4
  /\ unet_out[1].val # unet_out[Len(unet_out)].val

\* C7: exactly --num-warmup-runs runs execute with args.warmup = True and
\* none of them prints the latency table or saves an image; every later run
\* has args.warmup = False and prints the table and saves the image exactly
\* once, after its VAE run (the memory-measurement runs included).
C7_ReportOnlyMeasured ==
  /\ \A i \in 1..Len(main_log) : main_log[i].kind = "warmup" <=> main_log[i].warmup = "True"
  /\ \A i \in 1..Len(main_log) : main_log[i].kind # "warmup" <=> main_log[i].warmup = "False"
  /\ Len(WarmupsLogged) <= args.num_warmup_runs
  /\ (Len(Measured) > 0 \/ pc \in {"measure", "done"} => Len(WarmupsLogged) = args.num_warmup_runs)
  /\ (rpc # "idle" => args.warmup = main_log[Len(main_log)].warmup)
  /\ (args.warmup # "False" => Count(events, "print_table") = 0 /\ Count(events, "save_image") = 0)
  /\ \A i \in 1..Len(events) : IsOutput(events[i]) =>
        \E j \in 1..(i - 1) : events[j] = "vae_run"
  /\ Count(events, "print_table") <= 1 /\ Count(events, "save_image") <= 1
  /\ (rpc = "return" /\ args.warmup = "False" =>
        /\ Count(events, "print_table") = 1
        /\ Count(events, "save_image") = 1
        /\ report # NoFeed)
  /\ (rpc = "return" /\ args.warmup = "True" => report = NoFeed)

C7_Witness ==
  /\ rpc = "return" /\ main_log[Len(main_log)].kind = "memory"
  /\ Count(events, "save_image") = 1 /\ Len(WarmupsLogged) > 0

\* C8: the loop visits the timesteps in order with step_index 0, 1, ..., N-1,
\* each once; step k passes k to scale_model_input and to scheduler.step, and
\* passes to scheduler.step the latents returned by step k-1 (the scaled
\* initial noise at k = 0); the VAE gets the latents of the last step times
\* 1/0.18215; every run starts from new noise seeded with args.seed.
NoiseOfThisRun == [rows |-> Rows, op |-> "randn_sigma", idx |-> 0, seed |-> args.seed,
                   vae_scaled |-> FALSE, dtype |-> "float32"]
ResultOfStep(k) == [NoiseOfThisRun EXCEPT !.op = "step", !.idx = k]

C8_DenoiseChain ==
  /\ (rpc \in {"encode_text", "encode_uncond", "denoise_begin"} => latents = NoiseOfThisRun)
  /\ (rpc = "denoise" /\ step_index = 0 => latents = NoiseOfThisRun /\ ~UnetCalled)
  /\ (rpc \in {"denoise", "decode_begin", "decode", "report", "return"} =>
        /\ Count(events, "unet_run") = step_index
        /\ step_index <= Len(args.timesteps))
  /\ (StepDone =>
        LET k == step_call.step_index IN
          /\ k = step_index - 1
          /\ scale_call.step_index = k
          /\ unet_feed.sample.scaled_at = k
          /\ step_call.timestep = args.timesteps[k + 1]
          /\ unet_feed.timestep.val = args.timesteps[k + 1]
          /\ step_call.latents = (IF k = 0 THEN NoiseOfThisRun ELSE ResultOfStep(k - 1))
          /\ scale_call.latents = step_call.latents
          /\ (rpc = "denoise" => latents = ResultOfStep(k)))
  /\ (VaeCalled =>
        /\ step_index = Len(args.timesteps)
        /\ vae_feed.latent = [ResultOfStep(Len(args.timesteps) - 1) EXCEPT !.vae_scaled = TRUE])

C8_Witness == VaeCalled /\ Len(args.timesteps) >= 2 /\ args.seed = 1 /\ Len(main_log) >= 2

\* C9: during every measured run args.prompt is a list of exactly
\* args.batch_size copies of the initial prompt and args.negative_prompt is a
\* list of exactly args.batch_size entries, so args.prompt[i] is in range for
\* every i in range(args.batch_size).
C9_PromptSizes ==
  InRun /\ args.warmup = "False" =>
    /\ args.prompt = PyList(Copies(init_prompt.items, args.batch_size))
    /\ args.negative_prompt.kind = "list"
    /\ Len(args.negative_prompt.items) = args.batch_size
    /\ PrefixIndexOk

\* C10: the clock is read in the order start, clip_start, clip_end,
\* unet_start, unet_end, vae_start, vae_end, end, with both CLIP runs inside
\* the CLIP interval, all UNet runs inside the UNet interval and the VAE run
\* inside the VAE interval; so the three intervals are disjoint and inside
\* [start_time, end_time], and the printed pipeline latency is at least the
\* sum of the three printed module latencies.
ExpectedEvents ==
  <<"start_time", "clip_start_time", "clip_run", "clip_run", "clip_end_time", "unet_start_time">>
  \o Copies("unet_run", args.denoising_steps)
  \o <<"unet_end_time", "vae_start_time", "vae_run", "vae_end_time", "end_time">>

ClockOrder ==
  <<"start_time", "clip_start_time", "clip_end_time", "unet_start_time",
    "unet_end_time", "vae_start_time", "vae_end_time", "end_time">>

C10_Timers ==
  /\ IsPrefix(SelectSeq(events, LAMBDA e : ~IsOutput(e)), ExpectedEvents)
  /\ DOMAIN timers = {events[i] : i \in {j \in 1..Len(events) : IsClock(events[j])}}
  /\ \A i \in 1..8 : \A j \in 1..8 :
        i < j /\ ClockOrder[j] \in DOMAIN timers =>
          /\ ClockOrder[i] \in DOMAIN timers
          /\ timers[ClockOrder[i]] <= timers[ClockOrder[j]]
  /\ (report # NoFeed =>
        /\ report.clip = timers["clip_end_time"] - timers["clip_start_time"]
        /\ report.unet = timers["unet_end_time"] - timers["unet_start_time"]
        /\ report.vae = timers["vae_end_time"] - timers["vae_start_time"]
        /\ report.pipeline = timers["end_time"] - timers["start_time"]
        /\ report.clip >= 0 /\ report.unet >= 0 /\ report.vae >= 0
        /\ report.pipeline >= report.clip + report.unet + report.vae)

C10_Witness == report # NoFeed /\ report.unet > 0 /\ report.pipeline = report.unet
====
